---- MODULE Spec2Model ----
(***************************************************************************)
(* Job lifecycle and deduplication of the ingestion app:                   *)
(*   ingestion/models.py    the Job record and its mark_* methods          *)
(*   ingestion/services.py  hashing, validation, path normalisation and    *)
(*                          has_successful_job                             *)
(*   ingestion/views.py     the intake handlers and the job REST resource  *)
(*   ingestion/tasks.py     the Celery tasks and their retry handling      *)
(*   ingestion/admin.py     the admin actions on jobs                      *)
(***************************************************************************)
EXTENDS Integers, Sequences, FiniteSets, Bags, TLC

\* Bounds of the model.
MaxJobs == 2        \* jobs created over a run
NumContents == 1    \* distinct non-empty payloads a client may submit
MaxPathLen == 6     \* characters of a file name given to normalize_relative_path
MaxEntries == 2     \* entries of a list given to compute_directory_hash
MaxRequests == 2    \* intake requests under way at once
MaxBuilds == 4      \* analytics builds waiting at once

\* Program constants.
max_retries == 5    \* @shared_task(bind=True, max_retries=5, ...)
MaxRetries == 5     \* the handler's own bound: if current_retry < 5
build_max_retries == 3  \* @shared_task(bind=True, max_retries=3, ...)
BuildDelay == 120   \* self.retry(exc=exc, countdown=120)
RetryDelay == 60    \* countdown=60 * new_retry_count

VARIABLES
    jobs,       \* the jobs table: id -> Job record (Job.objects)
    nextId,     \* ids handed out so far are 1..nextId-1 (uuid4: never reused)
    queue,      \* the broker: bag of task messages waiting for a worker
    resp,       \* the response of the intake request just served, or NoResp
    failures,   \* history: per existing job, executions whose processing raised
    service,    \* whether the import of app.services succeeded in tasks.py
    arg,        \* a call of a function of services.py on its own: the argument
    result,     \* and what the call returned or raised, NoResult before it
    requests,   \* intake requests served step by step: slot -> where it is
    executions  \* task executions run step by step: slot -> where it is

\* The call of a services.py function is apart from the application's state.
call == <<arg, result>>

\* Requests and executions whose steps interleave with those of others.
inflight == <<requests, executions>>

vars == <<jobs, nextId, queue, resp, failures, service, arg, result,
          requests, executions>>

Contents == 1..NumContents

----------------------------------------------------------------------------
\* services.py

\* Payloads are numbered: 0 is the empty payload b'', c in Contents a payload
\* of one byte of value c.
EmptyBytes == 0
Bytes(b) == IF b = EmptyBytes THEN <<>> ELSE <<b>>

\* What a function returns, or the ValueError it raises.
Ok(value) == [ok |-> TRUE, value |-> value, error |-> ""]
ValueError(message) == [ok |-> FALSE, value |-> <<>>, error |-> message]

\* h.hexdigest() of SHA-256 over the bytes fed to it, taken to be free of
\* collisions: the digest stands for the bytes.
hexdigest(bytes) == "sha256:" \o ToString(bytes)

compute_sha256_bytes(b) == hexdigest(Bytes(b))

\* zipfile.is_zipfile(io.BytesIO(contents)): among the numbered payloads the
\* even ones are zip archives; the empty payload is none.
is_zipfile(contents) == contents # EmptyBytes /\ contents % 2 = 0

\* The emptiness check left out for plain files.
validate_upload_payload_accepts_empty(contents, upload_type) ==
    IF upload_type \notin {"file", "directory"}
    THEN ValueError("upload_type must be 'file' or 'directory'")
    ELSE IF upload_type = "directory" /\ ~is_zipfile(contents)
    THEN ValueError("Directory uploads must be provided as a .zip archive")
    ELSE Ok(upload_type)

validate_upload_payload(contents, upload_type) ==
    IF upload_type \notin {"file", "directory"}
    THEN ValueError("upload_type must be 'file' or 'directory'")
    ELSE IF upload_type = "directory"
    THEN IF ~is_zipfile(contents)
         THEN ValueError("Directory uploads must be provided as a .zip archive")
         ELSE Ok(upload_type)
    ELSE IF contents = EmptyBytes
         THEN ValueError("Uploaded file is empty")
         ELSE Ok(upload_type)

\* File names are sequences of characters of this alphabet.
PathChars == {"/", "\\", ".", " ", "a"}

\* ord(c): the code point, which is also the character's UTF-8 byte.
Ord(c) ==
    CASE c = " "  -> 32
      [] c = "."  -> 46
      [] c = "/"  -> 47
      [] c = "\\" -> 92
      [] c = "a"  -> 97

\* str.replace(old, new) for single characters.
Replace(str, old, new) ==
    [i \in 1..Len(str) |-> IF str[i] = old THEN new ELSE str[i]]

\* str.lstrip(chars) and str.rstrip(chars).
RECURSIVE LStrip(_, _)
LStrip(str, chars) ==
    IF str # <<>> /\ Head(str) \in chars THEN LStrip(Tail(str), chars) ELSE str

RECURSIVE RStrip(_, _)
RStrip(str, chars) ==
    IF str # <<>> /\ str[Len(str)] \in chars
    THEN RStrip(SubSeq(str, 1, Len(str) - 1), chars)
    ELSE str

\* str.strip(): whitespace off both ends.
Strip(str) == RStrip(LStrip(str, {" "}), {" "})

\* str.split(sep): the pieces between the separators, empty ones included.
RECURSIVE Split(_, _)
Split(str, sep) ==
    IF \A i \in 1..Len(str) : str[i] # sep
    THEN <<str>>
    ELSE LET i == CHOOSE k \in 1..Len(str) :
                      str[k] = sep /\ \A l \in 1..(k - 1) : str[l] # sep
         IN  <<SubSeq(str, 1, i - 1)>> \o Split(SubSeq(str, i + 1, Len(str)), sep)

\* sep.join(segments)
RECURSIVE Join(_, _)
Join(segments, sep) ==
    IF segments = <<>> THEN <<>>
    ELSE IF Len(segments) = 1 THEN segments[1]
    ELSE segments[1] \o <<sep>> \o Join(Tail(segments), sep)

\* The loop of normalize_relative_path over path.split('/'): the segments
\* kept, in order.
RECURSIVE KeptSegments(_)
KeptSegments(segments) ==
    IF segments = <<>> THEN <<>>
    ELSE IF Head(segments) \in {<<>>, <<".">>}
    THEN KeptSegments(Tail(segments))
    ELSE <<Head(segments)>> \o KeptSegments(Tail(segments))

\* The '..' segments dropped like '.' instead of refused.
normalize_relative_path_drops_dotdot(filename) ==
    LET stripped == Strip(Replace(filename, "\\", "/"))
        path == LStrip(stripped, {"/"})
        segments == Split(path, "/")
        kept == KeptSegments(segments)
        normalized == Join(SelectSeq(kept, LAMBDA seg : seg # <<".", ".">>), "/")
    IN  IF stripped = <<>>
        THEN ValueError("Each file must include a relative path or filename")
        ELSE IF normalized = <<>>
        THEN ValueError("Invalid relative path provided")
        ELSE Ok(normalized)

normalize_relative_path(filename) ==
    LET stripped == Strip(Replace(filename, "\\", "/"))
        path == IF stripped # <<>> /\ Head(stripped) = "/"
                THEN LStrip(stripped, {"/"})
                ELSE stripped
        segments == Split(path, "/")
        normalized == Join(KeptSegments(segments), "/")
    IN  IF stripped = <<>>
        THEN ValueError("Each file must include a relative path or filename")
        ELSE IF \E i \in 1..Len(segments) : segments[i] = <<".", ".">>
        THEN ValueError("Directory traversal sequences ('..') are not allowed in file paths")
        ELSE IF normalized = <<>>
        THEN ValueError("Invalid relative path provided")
        ELSE Ok(normalized)

\* entry['path'].encode('utf-8')
Encode(path) == [i \in 1..Len(path) |-> Ord(path[i])]

\* Python's order on strings: by code point, a proper prefix first.
RECURSIVE StrLess(_, _)
StrLess(s, t) ==
    IF t = <<>> THEN FALSE
    ELSE IF s = <<>> THEN TRUE
    ELSE IF Ord(Head(s)) # Ord(Head(t)) THEN Ord(Head(s)) < Ord(Head(t))
    ELSE StrLess(Tail(s), Tail(t))

\* sorted(entries, key=lambda e: e['path']): a stable sort, entries of equal
\* path keep the order they came in.
RECURSIVE Insert(_, _)
Insert(entry, sortedEntries) ==
    IF sortedEntries = <<>> THEN <<entry>>
    ELSE IF StrLess(entry.path, Head(sortedEntries).path)
    THEN <<entry>> \o sortedEntries
    ELSE <<Head(sortedEntries)>> \o Insert(entry, Tail(sortedEntries))

RECURSIVE sorted(_)
sorted(entries) ==
    IF entries = <<>> THEN <<>>
    ELSE Insert(entries[Len(entries)],
                sorted(SubSeq(entries, 1, Len(entries) - 1)))

\* len(content).to_bytes(8, 'big') for the lengths that occur (below 256)
LengthBytes(n) == <<0, 0, 0, 0, 0, 0, 0, n>>

\* The bytes the loop of compute_directory_hash feeds to the digest.
RECURSIVE DigestInput(_)
DigestInput(sortedEntries) ==
    IF sortedEntries = <<>> THEN <<>>
    ELSE LET entry == Head(sortedEntries)
             content == Bytes(entry.content)
         IN  Encode(entry.path) \o LengthBytes(Len(content)) \o content
                \o DigestInput(Tail(sortedEntries))

compute_directory_hash(entries) ==
    IF entries = <<>>
    THEN ValueError("No files provided to compute directory hash")
    ELSE Ok(hexdigest(DigestInput(sorted(entries))))

\* A status literal that matches no job: the check never finds a duplicate.
has_successful_job_misspelt(file_hash, ingestion_type) ==
    \E j \in DOMAIN jobs :
        /\ jobs[j].file_hash = file_hash
        /\ jobs[j].ingestion_type = ingestion_type
        /\ jobs[j].status = "complete"

\* The channel left out of the query: a completed job of either channel counts.
has_successful_job_any_channel(file_hash, ingestion_type) ==
    \E j \in DOMAIN jobs :
        /\ jobs[j].file_hash = file_hash
        /\ jobs[j].status = "completed"

has_successful_job(file_hash, ingestion_type) ==
    \E j \in DOMAIN jobs :
        /\ jobs[j].file_hash = file_hash
        /\ jobs[j].ingestion_type = ingestion_type
        /\ jobs[j].status = "completed"

----------------------------------------------------------------------------
\* models.py

\* The status argument ignored: the job gets the field's default, 'queued'.
NewJob_default_status(file_hash, ingestion_type, status) ==
    [file_hash |-> file_hash, ingestion_type |-> ingestion_type,
     status |-> "queued", message |-> "", retry_count |-> 0]

\* Job.objects.create(file_hash=, ingestion_type=, status=): the other fields
\* take their defaults (message null, retry_count 0).
NewJob(file_hash, ingestion_type, status) ==
    [file_hash |-> file_hash, ingestion_type |-> ingestion_type,
     status |-> status, message |-> "", retry_count |-> 0]

\* Meta.ordering = ['-created_at']: .first() is the newest match. Ids are
\* handed out in creation order, so the newest match has the largest id.
First(S) == CHOOSE j \in S : \A k \in S : k <= j

mark_completed(job, message) ==
    [job EXCEPT !.status = "completed", !.message = message]

\* The message kept when the job already has one.
mark_failed_keeps_message(job, message) ==
    [job EXCEPT !.status = "failed",
                !.message = IF @ = "" THEN message ELSE @]

\* The failed state set on the object but never saved.
mark_failed_unsaved(job, message) == job

mark_failed(job, message) ==
    [job EXCEPT !.status = "failed",
                !.message = IF message # "" THEN message ELSE @]

increment_retry(job) ==
    [job EXCEPT !.retry_count = @ + 1]

----------------------------------------------------------------------------
\* Celery: task messages, .delay() and self.retry()

TaskMsg(task, job_id) ==
    [task |-> task, job_id |-> job_id, retries |-> 0, countdown |-> 0]

\* task.delay(job_id, ...): one message for the job, to run at once.
delay(q, task, job_id) == q (+) SetToBag({TaskMsg(task, job_id)})

\* The retry sent while the message being executed also stays with the
\* broker: two units of work for one job.
retry_keeps_original(q, m, countdown) ==
    IF m.retries + 1 > max_retries
    THEN q
    ELSE q (+) SetToBag({m, [m EXCEPT !.retries = @ + 1, !.countdown = countdown]})

\* The retry raised but never sent.
retry_dropped(q, m, countdown) == q

\* self.retry(exc=exc, countdown=c) in the execution of message m: the same
\* unit of work is sent again with retries+1 and the countdown, unless that
\* exceeds the task's max_retries, when exc is raised and nothing is sent.
retry(q, m, countdown) ==
    IF m.retries + 1 > max_retries
    THEN q
    ELSE q (+) SetToBag({[m EXCEPT !.retries = @ + 1, !.countdown = countdown]})

\* The processing function (app.services, outside this repository) is taken to
\* do what the task relies on: it marks the job completed and returns, or it
\* raises and leaves the job as it was.
Outcomes == {"completed", "raise"}

\* The bound compared with <= : one retry too many.
can_retry_inclusive(current_retry) == current_retry <= MaxRetries

\* if current_retry < 5
can_retry(current_retry) == current_retry < MaxRetries

RetryMsg(n) ==
    "Retry " \o ToString(n) \o "/5 - Previous error: exc"

----------------------------------------------------------------------------
\* views.py: responses of the intake handlers (IngestResponseSerializer)

NoResp ==
    [code |-> 0, job_id |-> 0, file_hash |-> "", status |-> "",
     ingestion_type |-> "", is_duplicate |-> FALSE]

\* Response({'detail': ...}, status=code)
ErrorResponse(code) == [NoResp EXCEPT !.code = code]

IngestResponse(code, id, job, is_duplicate) ==
    [code |-> code, job_id |-> id, file_hash |-> job.file_hash,
     status |-> job.status, ingestion_type |-> job.ingestion_type,
     is_duplicate |-> is_duplicate]

\* Job.objects.filter(file_hash=, ingestion_type=, status='completed')
CompletedJobs(file_hash, ingestion_type) ==
    {j \in DOMAIN jobs : /\ jobs[j].file_hash = file_hash
                         /\ jobs[j].ingestion_type = ingestion_type
                         /\ jobs[j].status = "completed"}

\* The Postgres channel's rule applied to the S3 channel: only a completed
\* job counts as already known.
ExistingJobs_completed_only(file_hash, ingestion_type) ==
    {j \in DOMAIN jobs : /\ jobs[j].file_hash = file_hash
                         /\ jobs[j].ingestion_type = ingestion_type
                         /\ jobs[j].status = "completed"}

\* Job.objects.filter(file_hash=, ingestion_type=)
ExistingJobs(file_hash, ingestion_type) ==
    {j \in DOMAIN jobs : /\ jobs[j].file_hash = file_hash
                         /\ jobs[j].ingestion_type = ingestion_type}

\* The S3 channel's rule applied to the Postgres channel: any job of the key,
\* whatever its status, counts as a duplicate.
duplicate_of_any_status(file_hash, ingestion_type) ==
    ExistingJobs(file_hash, ingestion_type)

\* "Check for duplicate" of the Postgres handlers: the jobs the submission
\* duplicates, none unless has_successful_job() says so and the query for the
\* completed job finds one.
duplicate_of(file_hash, ingestion_type) ==
    IF has_successful_job(file_hash, ingestion_type)
    THEN CompletedJobs(file_hash, ingestion_type)
    ELSE {}

\* request.FILES of ingest_postgres: no 'file' part, or a file of some bytes.
NoFile == 0
Files == Contents \cup {NoFile}

ingest_postgres(file) ==
    LET file_hash == compute_sha256_bytes(file)
        ingestion_type == "Postgres"
        completed == duplicate_of(file_hash, ingestion_type)
    IN  /\ resp = NoResp
        /\ IF file = NoFile THEN
              /\ resp' = ErrorResponse(400)
              /\ UNCHANGED <<jobs, nextId, queue, failures>>
           ELSE IF completed # {} THEN
              /\ resp' = IngestResponse(200, First(completed),
                                        jobs[First(completed)], TRUE)
              /\ UNCHANGED <<jobs, nextId, queue, failures>>
           ELSE
              /\ nextId <= MaxJobs
              /\ jobs' = jobs @@ (nextId :> NewJob(file_hash, ingestion_type, "running"))
              /\ nextId' = nextId + 1
              /\ failures' = failures @@ (nextId :> 0)
              /\ queue' = delay(queue, "process_uploaded_file_task", nextId)
              /\ resp' = IngestResponse(201, nextId,
                                        jobs'[nextId], FALSE)
        /\ UNCHANGED service

\* The request of ingest_postgres_from_s3 and what the bucket answers:
\* an invalid body, a missing key or bucket (ValueError), another client
\* error (RuntimeError), or the bytes of the object.
S3Requests ==
    [s3_key : {"invalid", "NoSuchKey", "ClientError"}, contents : {NoFile}]
    \cup [s3_key : {"key"}, contents : Contents]

ingest_postgres_from_s3(req) ==
    LET file_hash == compute_sha256_bytes(req.contents)
        ingestion_type == "Postgres"
        completed == duplicate_of(file_hash, ingestion_type)
    IN  /\ resp = NoResp
        /\ IF req.s3_key = "invalid" THEN
              /\ resp' = ErrorResponse(400)
              /\ UNCHANGED <<jobs, nextId, queue, failures>>
           ELSE IF req.s3_key = "NoSuchKey" THEN
              /\ resp' = ErrorResponse(404)
              /\ UNCHANGED <<jobs, nextId, queue, failures>>
           ELSE IF req.s3_key = "ClientError" THEN
              /\ resp' = ErrorResponse(500)
              /\ UNCHANGED <<jobs, nextId, queue, failures>>
           ELSE IF completed # {} THEN
              /\ resp' = IngestResponse(200, First(completed),
                                        jobs[First(completed)], TRUE)
              /\ UNCHANGED <<jobs, nextId, queue, failures>>
           ELSE
              /\ nextId <= MaxJobs
              /\ jobs' = jobs @@ (nextId :> NewJob(file_hash, ingestion_type, "running"))
              /\ nextId' = nextId + 1
              /\ failures' = failures @@ (nextId :> 0)
              /\ queue' = delay(queue, "process_uploaded_file_task", nextId)
              /\ resp' = IngestResponse(201, nextId,
                                        jobs'[nextId], FALSE)
        /\ UNCHANGED service

\* An uploaded file: its name (name: the path part, zip: whether it ends in
\* '.zip') and the payload read from it.
File(name, zip, data) == [name |-> name, zip |-> zip, data |-> data]

\* File names of a upload of several files: plain, below a leading separator,
\* below a '..' segment, and empty.
UploadNames == {<<"a">>, <<"/", "a">>, <<".", ".", "/", "a">>, <<>>}

\* request.FILES.getlist('files') of upload_to_s3: no file; one file, named
\* *.zip or not, empty or not; two files, the first under any of the names.
Uploads ==
    {<<>>}
    \cup {<<File(<<"a">>, zip, data)>> :
             zip \in BOOLEAN, data \in Contents \cup {EmptyBytes}}
    \cup {<<File(name, FALSE, data), File(<<"a">>, FALSE, data)>> :
             name \in UploadNames, data \in Contents}

\* "Case 2: Multiple files uploaded": the entries built from the files, or the
\* first ValueError of normalize_relative_path.
RECURSIVE raw_directory_entries(_)
raw_directory_entries(files) ==
    IF files = <<>> THEN Ok(<<>>)
    ELSE LET rel_path == normalize_relative_path(Head(files).name)
             others == raw_directory_entries(Tail(files))
         IN  IF ~rel_path.ok THEN rel_path
             ELSE IF ~others.ok THEN others
             ELSE Ok(<<[path |-> rel_path.value, content |-> Head(files).data]>>
                        \o others.value)

\* The part of upload_to_s3 before the Job store is looked at: payload_kind
\* and file_hash of the upload (value), or the ValueError that rejects it.
upload_payload(files) ==
    IF Len(files) = 1 THEN
        LET file == files[1]
            contents == file.data
            valid == validate_upload_payload(contents,
                        IF file.zip THEN "directory" ELSE "file")
        IN  IF ~valid.ok THEN valid
            ELSE Ok([payload_kind |-> IF file.zip THEN "directory_archive"
                                                  ELSE "single",
                     file_hash |-> compute_sha256_bytes(contents)])
    ELSE
        LET entries == raw_directory_entries(files)
            hashed == IF entries.ok THEN compute_directory_hash(entries.value)
                                    ELSE entries
        IN  IF ~hashed.ok THEN hashed
            ELSE Ok([payload_kind |-> "raw_directory", file_hash |-> hashed.value])

\* upload_payload of every upload a client may send.
UploadPayloads == [files \in Uploads |-> upload_payload(files)]

upload_to_s3(files) ==
    LET ingestion_type == "S3"
        payload == UploadPayloads[files]
        file_hash == payload.value.file_hash
        existing == ExistingJobs(file_hash, ingestion_type)
        task == IF payload.value.payload_kind = "raw_directory"
                THEN "process_s3_directory_upload_task"
                ELSE "process_s3_upload_task"
    IN  /\ resp = NoResp
        /\ IF files = <<>> THEN
              /\ resp' = ErrorResponse(400)
              /\ UNCHANGED <<jobs, nextId, queue, failures>>
           ELSE IF ~payload.ok THEN
              /\ resp' = ErrorResponse(400)
              /\ UNCHANGED <<jobs, nextId, queue, failures>>
           ELSE IF existing # {} THEN
              /\ resp' = IngestResponse(200, First(existing),
                                        jobs[First(existing)], TRUE)
              /\ UNCHANGED <<jobs, nextId, queue, failures>>
           ELSE
              /\ nextId <= MaxJobs
              /\ jobs' = jobs @@ (nextId :> NewJob(file_hash, ingestion_type, "running"))
              /\ nextId' = nextId + 1
              /\ failures' = failures @@ (nextId :> 0)
              /\ queue' = delay(queue, task, nextId)
              /\ resp' = IngestResponse(201, nextId,
                                        jobs'[nextId], FALSE)
        /\ UNCHANGED service

----------------------------------------------------------------------------
\* tasks.py: one execution of a task message by a worker

\* The lookup error handled like a processing error: the work is sent again.
job_not_found_retried(m) ==
    /\ queue' = retry(queue (-) SetToBag({m}), m, RetryDelay)
    /\ UNCHANGED <<jobs, failures>>

\* except Job.DoesNotExist: logged and re-raised. The execution ends there:
\* the message is consumed and nothing else happens.
job_not_found(m) ==
    /\ queue' = queue (-) SetToBag({m})
    /\ UNCHANGED <<jobs, failures>>

process_uploaded_file_task(m, outcome) ==
    LET job_id == m.job_id
        rest == queue (-) SetToBag({m})
    IN  /\ BagIn(m, queue)
        /\ m.task = "process_uploaded_file_task"
        /\ resp = NoResp
        /\ UNCHANGED <<nextId, resp, service>>
        /\ IF job_id \notin DOMAIN jobs THEN
              job_not_found(m)
           ELSE IF ~service THEN
              /\ jobs' = [jobs EXCEPT ![job_id] =
                            mark_failed(@, "Processing service not available")]
              /\ queue' = rest
              /\ UNCHANGED failures
           ELSE IF outcome = "completed" THEN
              /\ jobs' = [jobs EXCEPT ![job_id] = mark_completed(@, "Ingested")]
              /\ queue' = rest
              /\ UNCHANGED failures
           ELSE
              \* except Exception as exc
              LET job == jobs[job_id]
                  current_retry == job.retry_count
                  new_retry_count == current_retry + 1
              IN  /\ failures' = [failures EXCEPT ![job_id] = @ + 1]
                  /\ IF can_retry(current_retry) THEN
                        /\ jobs' = [jobs EXCEPT ![job_id] =
                                      [increment_retry(job) EXCEPT
                                          !.status = "running",
                                          !.message = RetryMsg(new_retry_count)]]
                        /\ queue' = retry(rest, m, RetryDelay * new_retry_count)
                     ELSE
                        /\ jobs' = [jobs EXCEPT ![job_id] =
                                      mark_failed(job, "Failed after 5 retries. Last error: exc")]
                        /\ queue' = rest

process_s3_upload_task(m, outcome) ==
    LET job_id == m.job_id
        rest == queue (-) SetToBag({m})
    IN  /\ BagIn(m, queue)
        /\ m.task = "process_s3_upload_task"
        /\ resp = NoResp
        /\ UNCHANGED <<nextId, resp, service>>
        /\ IF job_id \notin DOMAIN jobs THEN
              job_not_found(m)
           ELSE IF ~service THEN
              /\ jobs' = [jobs EXCEPT ![job_id] =
                            mark_failed(@, "S3 upload service not available")]
              /\ queue' = rest
              /\ UNCHANGED failures
           ELSE IF outcome = "completed" THEN
              /\ jobs' = [jobs EXCEPT ![job_id] = mark_completed(@, "Uploaded")]
              /\ queue' = rest
              /\ UNCHANGED failures
           ELSE
              /\ failures' = [failures EXCEPT ![job_id] = @ + 1]
              /\ jobs' = [jobs EXCEPT ![job_id] =
                            mark_failed(@, "S3 upload failed: exc")]
              /\ queue' = rest

process_s3_directory_upload_task(m, outcome) ==
    LET job_id == m.job_id
        rest == queue (-) SetToBag({m})
    IN  /\ BagIn(m, queue)
        /\ m.task = "process_s3_directory_upload_task"
        /\ resp = NoResp
        /\ UNCHANGED <<nextId, resp, service>>
        /\ IF job_id \notin DOMAIN jobs THEN
              job_not_found(m)
           ELSE IF ~service THEN
              /\ jobs' = [jobs EXCEPT ![job_id] =
                            mark_failed(@, "S3 directory upload service not available")]
              /\ queue' = rest
              /\ UNCHANGED failures
           ELSE IF outcome = "completed" THEN
              /\ jobs' = [jobs EXCEPT ![job_id] = mark_completed(@, "Uploaded")]
              /\ queue' = rest
              /\ UNCHANGED failures
           ELSE
              /\ failures' = [failures EXCEPT ![job_id] = @ + 1]
              /\ jobs' = [jobs EXCEPT ![job_id] =
                            mark_failed(@, "S3 directory upload failed: exc")]
              /\ queue' = rest

----------------------------------------------------------------------------
\* admin.py and the job REST resource

\* The status filter left out: every selected job is reset.
retry_failed_jobs_unfiltered(queryset) ==
    /\ resp = NoResp
    /\ jobs' = [j \in DOMAIN jobs |->
                  IF j \in queryset
                  THEN [jobs[j] EXCEPT !.status = "queued",
                                       !.message = "Retried from admin"]
                  ELSE jobs[j]]
    /\ UNCHANGED <<nextId, queue, resp, failures, service>>

\* The retry also starting the count of automatic retries again.
retry_failed_jobs_resets_count(queryset) ==
    /\ resp = NoResp
    /\ jobs' = [j \in DOMAIN jobs |->
                  IF j \in queryset /\ jobs[j].status = "failed"
                  THEN [jobs[j] EXCEPT !.status = "queued",
                                       !.message = "Retried from admin",
                                       !.retry_count = 0]
                  ELSE jobs[j]]
    /\ UNCHANGED <<nextId, queue, resp, failures, service>>

\* queryset.filter(status='failed').update(status='queued', message=...)
retry_failed_jobs(queryset) ==
    /\ jobs' = [j \in DOMAIN jobs |->
                  IF j \in queryset /\ jobs[j].status = "failed"
                  THEN [jobs[j] EXCEPT !.status = "queued",
                                       !.message = "Retried from admin"]
                  ELSE jobs[j]]
    /\ resp = NoResp
    /\ UNCHANGED <<nextId, queue, resp, failures, service>>

bulk_delete_jobs(queryset) ==
    /\ jobs' = [j \in DOMAIN jobs \ queryset |-> jobs[j]]
    /\ failures' = [j \in DOMAIN failures \ queryset |-> failures[j]]
    /\ resp = NoResp
    /\ UNCHANGED <<nextId, queue, resp, service>>

\* The record kept and only marked: a deletion that removes nothing.
destroy_soft(job_id) ==
    /\ job_id \in DOMAIN jobs
    /\ jobs' = [jobs EXCEPT ![job_id].status = "failed",
                            ![job_id].message = "deleted"]
    /\ resp = NoResp
    /\ UNCHANGED <<nextId, queue, resp, failures, service>>

\* JobViewSet.destroy: 404 when the job does not exist
destroy(job_id) ==
    /\ jobs' = [j \in DOMAIN jobs \ {job_id} |-> jobs[j]]
    /\ failures' = [j \in DOMAIN failures \ {job_id} |-> failures[j]]
    /\ resp = NoResp
    /\ UNCHANGED <<nextId, queue, resp, service>>

\* StatusView.get: what the status endpoint answers for job_id. It reads the
\* store and changes nothing.
StatusView_get(job_id) ==
    IF job_id \in DOMAIN jobs
    THEN IngestResponse(200, job_id, jobs[job_id], FALSE)
    ELSE ErrorResponse(404)

\* Values a client writes to retry_count: a rewind, the retry bound and a value
\* beyond it.
RetryCounts == {0, MaxRetries, MaxRetries + 1}

\* JobViewSet.partial_update through JobSerializer: retry_count is not among
\* the read-only fields, so PATCH {"retry_count": n} stores n.

partial_update(job_id, retry_count) ==
    /\ job_id \in DOMAIN jobs
    /\ jobs' = [jobs EXCEPT ![job_id].retry_count = retry_count]
    /\ resp = NoResp
    /\ UNCHANGED <<nextId, queue, resp, failures, service>>

----------------------------------------------------------------------------

\* return Response(serializer.data): the response leaves the handler. Request
\* handling is synchronous, so the handler's effects and its response are one
\* step and the response is handed over before the next operation is looked at.
Respond ==
    /\ resp # NoResp
    /\ resp' = NoResp
    /\ UNCHANGED <<jobs, nextId, queue, failures, service>>

\* No call of a services.py function on its own is under way.
NoCall == [fn |-> "none", filename |-> <<>>, entries |-> <<>>]
NoResult == [ok |-> FALSE, value |-> <<>>, error |-> "not called"]

Init ==
    /\ jobs = <<>>
    /\ nextId = 1
    /\ queue = EmptyBag
    /\ resp = NoResp
    /\ failures = <<>>
    /\ service \in BOOLEAN
    /\ arg = NoCall
    /\ result = NoResult
    /\ requests = <<>>
    /\ executions = <<>>

Messages == BagToSet(queue)

Next ==
    \/ \E file \in Files : ingest_postgres(file) /\ UNCHANGED <<call, inflight>>
    \/ \E req \in S3Requests : ingest_postgres_from_s3(req) /\ UNCHANGED <<call, inflight>>
    \/ \E files \in Uploads : upload_to_s3(files) /\ UNCHANGED <<call, inflight>>
    \/ \E m \in Messages, outcome \in Outcomes :
          process_uploaded_file_task(m, outcome) /\ UNCHANGED <<call, inflight>>
    \/ \E m \in Messages, outcome \in Outcomes :
          process_s3_upload_task(m, outcome) /\ UNCHANGED <<call, inflight>>
    \/ \E m \in Messages, outcome \in Outcomes :
          process_s3_directory_upload_task(m, outcome) /\ UNCHANGED <<call, inflight>>
    \/ \E queryset \in SUBSET DOMAIN jobs : retry_failed_jobs(queryset) /\ UNCHANGED <<call, inflight>>
    \/ \E queryset \in SUBSET DOMAIN jobs : bulk_delete_jobs(queryset) /\ UNCHANGED <<call, inflight>>
    \/ \E job_id \in 1..MaxJobs : destroy(job_id) /\ UNCHANGED <<call, inflight>>
    \/ Respond /\ UNCHANGED <<call, inflight>>

Spec == Init /\ [][Next]_vars

NextRest ==
    \/ Next
    \/ \E job_id \in DOMAIN jobs, retry_count \in RetryCounts :
          partial_update(job_id, retry_count) /\ UNCHANGED <<call, inflight>>

SpecRest == Init /\ [][NextRest]_vars

\* File names of up to MaxPathLen characters.
Paths == UNION {[1..n -> PathChars] : n \in 0..MaxPathLen}

\* Paths of directory entries: a file, and a file below a directory of the
\* same name.
EntryPaths == {<<"a">>, <<"a", "/", "a">>}

\* The entries a directory upload is made of: {'path': ..., 'content': ...}
Entries == [path : EntryPaths, content : Contents \cup {EmptyBytes}]

\* Lists of one to MaxEntries entries, no entry twice.
EntryLists ==
    UNION {{es \in [1..n -> Entries] :
               \A i, k \in 1..n : es[i] = es[k] => i = k} : n \in 1..MaxEntries}

\* A call of a services.py function with its argument.
Call(fn, filename, entries) ==
    [fn |-> fn, filename |-> filename, entries |-> entries]

Calls ==
    {Call("normalize_relative_path", filename, <<>>) : filename \in Paths}
    \cup {Call("compute_directory_hash", <<>>, entries) : entries \in EntryLists}

\* The functions of services.py called on their own: the argument is chosen,
\* the Job store and the broker play no part.
InitServices ==
    /\ jobs = <<>>
    /\ nextId = 1
    /\ queue = EmptyBag
    /\ resp = NoResp
    /\ failures = <<>>
    /\ service = FALSE
    /\ arg \in Calls
    /\ result = NoResult
    /\ requests = <<>>
    /\ executions = <<>>

\* The call has not been made yet.
NotCalled == result.error = NoResult.error

Normalize ==
    /\ arg.fn = "normalize_relative_path"
    /\ NotCalled
    /\ result' = normalize_relative_path(arg.filename)
    /\ UNCHANGED <<jobs, nextId, queue, resp, failures, service, arg, inflight>>

DirectoryHash ==
    /\ arg.fn = "compute_directory_hash"
    /\ NotCalled
    /\ result' = compute_directory_hash(arg.entries)
    /\ UNCHANGED <<jobs, nextId, queue, resp, failures, service, arg, inflight>>

NextServices == Normalize \/ DirectoryHash

SpecServices == InitServices /\ [][NextServices]_vars

\* A worker takes some waiting message and executes its task.
Worker ==
    /\ \E m \in Messages, outcome \in Outcomes :
          \/ process_uploaded_file_task(m, outcome)
          \/ process_s3_upload_task(m, outcome)
          \/ process_s3_directory_upload_task(m, outcome)
    /\ UNCHANGED <<call, inflight>>

\* The application with its scheduling: a request that was served is answered,
\* and the workers do not leave waiting messages unexecuted for ever.
SpecFair == Spec /\ WF_vars(Respond /\ UNCHANGED <<call, inflight>>) /\ WF_vars(Worker)

----------------------------------------------------------------------------
\* The analytics build: BuildTAAnalyticsView.post and
\* build_ta_analytics_tables_task, which is bound to no job.

\* build_ta_analytics_tables_task.delay(): the message carries no job id.
BuildMsg ==
    [task |-> "build_ta_analytics_tables_task", job_id |-> 0,
     retries |-> 0, countdown |-> 0]

\* BuildTAAnalyticsView.post: the build is handed to the workers and the
\* request answered at once.
BuildTAAnalyticsView_post ==
    /\ resp = NoResp
    /\ BagCardinality(queue) < MaxBuilds
    /\ queue' = queue (+) SetToBag({BuildMsg})
    /\ resp' = [NoResp EXCEPT !.code = 200, !.status = "running"]
    /\ UNCHANGED <<jobs, nextId, failures, service, call, inflight>>

\* self.retry of a task declared with max_retries=limit.
retry_within(q, m, countdown, limit) ==
    IF m.retries + 1 > limit
    THEN q
    ELSE q (+) SetToBag({[m EXCEPT !.retries = @ + 1, !.countdown = countdown]})

\* The delay growing with the attempt, as in the ingestion task.
build_ta_analytics_tables_task_backoff(m, outcome) ==
    /\ BagIn(m, queue)
    /\ m.task = "build_ta_analytics_tables_task"
    /\ resp = NoResp
    /\ IF service /\ outcome = "completed"
       THEN queue' = queue (-) SetToBag({m})
       ELSE queue' = retry_within(queue (-) SetToBag({m}), m,
                                  RetryDelay * (m.retries + 1), build_max_retries)
    /\ UNCHANGED <<jobs, nextId, resp, failures, service, call, inflight>>

\* One execution of build_ta_analytics_tables_task: the build returns, or it
\* raises (a missing build function raises RuntimeError) and the handler
\* calls self.retry(exc=exc, countdown=120).
build_ta_analytics_tables_task(m, outcome) ==
    /\ BagIn(m, queue)
    /\ m.task = "build_ta_analytics_tables_task"
    /\ resp = NoResp
    /\ IF service /\ outcome = "completed"
       THEN queue' = queue (-) SetToBag({m})
       ELSE queue' = retry_within(queue (-) SetToBag({m}), m,
                                  BuildDelay, build_max_retries)
    /\ UNCHANGED <<jobs, nextId, resp, failures, service, call, inflight>>

NextAnalytics ==
    \/ BuildTAAnalyticsView_post
    \/ \E m \in Messages, outcome \in Outcomes :
          build_ta_analytics_tables_task(m, outcome)
    \/ Respond /\ UNCHANGED <<call, inflight>>

SpecAnalytics == Init /\ [][NextAnalytics]_vars

----------------------------------------------------------------------------
\* models.py, the Job record in full: the row of the jobs table, the instance
\* a caller holds in memory, and the methods that write one through the other.

\* The fields mark_completed is given by its callers.
ResultFields == {"table_name", "inserted_count", "file_names", "file_count", "message"}

Fields ==
    ResultFields \cup {"id", "file_hash", "ingestion_type", "status",
                       "retry_count", "created_at", "updated_at"}

\* A null text column is "", a null integer column is Null.
Null == -1

\* A job as Job.objects.create leaves it at time 1, then brought to the
\* given status, message and retry_count.
Row(status, message, retry_count) ==
    [id |-> 1, file_hash |-> "h", ingestion_type |-> "Postgres",
     status |-> status, table_name |-> "", inserted_count |-> Null,
     file_names |-> "", file_count |-> Null, message |-> message,
     retry_count |-> retry_count, created_at |-> 1, updated_at |-> 1]

\* The retry message is written together with the count it names.
Rows ==
    {row \in {Row(status, message, retry_count) :
                 status \in {"running", "failed"},
                 message \in {"", RetryMsg(1)},
                 retry_count \in {0, 1}} :
        row.message = RetryMsg(1) => row.retry_count = 1}

\* The values a caller passes for the result fields.
Supplied ==
    [table_name |-> "test_table", inserted_count |-> 100, file_names |-> "a",
     file_count |-> 2, message |-> "Test completed"]

\* **kwargs of mark_completed: any subset of the result fields.
Kwargs == {[f \in S |-> Supplied[f]] : S \in SUBSET ResultFields}

\* Model.save(update_fields=...): auto_now stamps updated_at on the instance
\* when the field is among those saved, and only the listed columns of the
\* row are written, with the instance's values.
save(instance, row, update_fields, now) ==
    LET stamped == IF "updated_at" \in update_fields
                   THEN [instance EXCEPT !.updated_at = now]
                   ELSE instance
    IN  [instance |-> stamped,
         row |-> [f \in DOMAIN row |->
                    IF f \in update_fields THEN stamped[f] ELSE row[f]]]

\* self.save() without update_fields: every column is written.
Job_mark_completed_saves_all(instance, row, kwargs, now) ==
    save([f \in DOMAIN instance |->
            IF f = "status" THEN "completed"
            ELSE IF f \in DOMAIN kwargs THEN kwargs[f]
            ELSE instance[f]],
         row, Fields, now)

\* Job.mark_completed(**kwargs)
Job_mark_completed(instance, row, kwargs, now) ==
    save([f \in DOMAIN instance |->
            IF f = "status" THEN "completed"
            ELSE IF f \in DOMAIN kwargs THEN kwargs[f]
            ELSE instance[f]],
         row, {"status", "updated_at"} \cup DOMAIN kwargs, now)

\* Job.mark_failed(message=None): message "" stands for None.
Job_mark_failed(instance, row, message, now) ==
    save([instance EXCEPT !.status = "failed",
                          !.message = IF message # "" THEN message ELSE @],
         row, {"status", "message", "updated_at"}, now)

\* Job.increment_retry()
Job_increment_retry(instance, row, now) ==
    save([instance EXCEPT !.retry_count = @ + 1],
         row, {"retry_count", "updated_at"}, now)

\* The retry path of process_uploaded_file_task: increment_retry(), then
\* status and message set and saved.
retry_path(instance, row, now) ==
    LET incremented == Job_increment_retry(instance, row, now)
    IN  save([incremented.instance EXCEPT
                 !.status = "running",
                 !.message = RetryMsg(instance.retry_count + 1)],
             incremented.row,
             {"status", "message", "retry_count", "updated_at"}, now)

\* QuerySet.update(**values) on the row: one UPDATE of the named columns;
\* no instance is involved and auto_now is not applied.
update(row, values) ==
    [f \in DOMAIN row |-> IF f \in DOMAIN values THEN values[f] ELSE row[f]]

\* retry_failed_jobs on a selection that holds the row.
admin_retry(instance, row) ==
    [instance |-> instance,
     row |-> IF row.status = "failed"
             THEN update(row, [status |-> "queued", message |-> "Retried from admin"])
             ELSE row]

\* A call of an operation on a job: the instance the caller holds, the row
\* as it is by now, the arguments and the time of the call.
JobCall(fn, instance, row, kwargs, message) ==
    [fn |-> fn, instance |-> instance, row |-> row, kwargs |-> kwargs,
     message |-> message, now |-> 2]

\* The instance was loaded from the row; the row may have been written by
\* someone else since (its message, status and retry_count).
JobCalls ==
    {JobCall("mark_completed", instance, row, kwargs, "") :
        instance \in Rows, row \in Rows, kwargs \in Kwargs}
    \cup {JobCall("mark_failed", instance, row, <<>>, message) :
        instance \in Rows, row \in Rows, message \in {"", "Test error"}}
    \cup {JobCall(fn, instance, row, <<>>, "") :
        fn \in {"increment_retry", "retry_path", "retry_failed_jobs"},
        instance \in Rows, row \in Rows}

InitModels ==
    /\ jobs = <<>>
    /\ nextId = 1
    /\ queue = EmptyBag
    /\ resp = NoResp
    /\ failures = <<>>
    /\ service = FALSE
    /\ arg \in JobCalls
    /\ result = NoResult
    /\ requests = <<>>
    /\ executions = <<>>

\* What the called operation leaves: the instance and the row.
Apply(c) ==
    CASE c.fn = "mark_completed" ->
            Job_mark_completed(c.instance, c.row, c.kwargs, c.now)
      [] c.fn = "mark_failed" ->
            Job_mark_failed(c.instance, c.row, c.message, c.now)
      [] c.fn = "increment_retry" ->
            Job_increment_retry(c.instance, c.row, c.now)
      [] c.fn = "retry_path" ->
            retry_path(c.instance, c.row, c.now)
      [] c.fn = "retry_failed_jobs" ->
            admin_retry(c.instance, c.row)

MethodCall ==
    /\ arg.fn \in {"mark_completed", "mark_failed", "increment_retry", "retry_path"}
    /\ result.error = NoResult.error
    /\ result' = Ok(Apply(arg))
    /\ UNCHANGED <<jobs, nextId, queue, resp, failures, service, arg, inflight>>

AdminUpdate ==
    /\ arg.fn = "retry_failed_jobs"
    /\ result.error = NoResult.error
    /\ result' = Ok(Apply(arg))
    /\ UNCHANGED <<jobs, nextId, queue, resp, failures, service, arg, inflight>>

NextModels == MethodCall \/ AdminUpdate

SpecModels == InitModels /\ [][NextModels]_vars

----------------------------------------------------------------------------
\* views.py, the intake handlers served by several web workers at once: the
\* existence check and the creation of the Job are separate database
\* statements, and statements of other requests can run between them.

Slots == 1..MaxRequests

\* What a submission is to the dedup gate: its channel, its fingerprint and
\* the task its Job is handed to.
Submission(ingestion_type, file_hash, task) ==
    [ingestion_type |-> ingestion_type, file_hash |-> file_hash, task |-> task]

Submissions ==
    {Submission("Postgres", compute_sha256_bytes(c), "process_uploaded_file_task") :
        c \in Contents}
    \cup {Submission("S3", UploadPayloads[files].value.file_hash,
                     IF UploadPayloads[files].value.payload_kind = "raw_directory"
                     THEN "process_s3_directory_upload_task"
                     ELSE "process_s3_upload_task") :
             files \in {u \in Uploads \ {<<>>} : UploadPayloads[u].ok}}

\* The jobs the handler's existence check finds for the submission: the
\* completed ones on the Postgres channel, all of them on the S3 channel.
Found(sub) ==
    IF sub.ingestion_type = "Postgres"
    THEN duplicate_of(sub.file_hash, sub.ingestion_type)
    ELSE ExistingJobs(sub.file_hash, sub.ingestion_type)

\* A request in slot r arrives and runs its existence check: it answers with
\* the job found, or goes on to create one.
check(r, sub) ==
    /\ r \notin DOMAIN requests
    /\ requests' = requests @@
          (r :> IF Found(sub) # {}
                THEN [sub |-> sub, pc |-> "done",
                      response |-> IngestResponse(200, First(Found(sub)),
                                                  jobs[First(Found(sub))], TRUE)]
                ELSE [sub |-> sub, pc |-> "create", response |-> NoResp])
    /\ UNCHANGED <<jobs, nextId, queue, resp, failures, service, call, executions>>

\* The creation done as an atomic insert-or-fetch on (file_hash,
\* ingestion_type): a job of the key that exists by now is answered instead.
create_or_fetch(r) ==
    LET sub == requests[r].sub
        existing == ExistingJobs(sub.file_hash, sub.ingestion_type)
    IN  /\ r \in DOMAIN requests
        /\ requests[r].pc = "create"
        /\ IF existing # {} THEN
              /\ requests' = [requests EXCEPT ![r].pc = "done",
                    ![r].response = IngestResponse(200, First(existing),
                                                   jobs[First(existing)], TRUE)]
              /\ UNCHANGED <<jobs, nextId, queue, failures>>
           ELSE
              /\ nextId <= MaxJobs
              /\ jobs' = jobs @@ (nextId :> NewJob(sub.file_hash, sub.ingestion_type, "running"))
              /\ nextId' = nextId + 1
              /\ failures' = failures @@ (nextId :> 0)
              /\ queue' = delay(queue, sub.task, nextId)
              /\ requests' = [requests EXCEPT ![r].pc = "done",
                    ![r].response = IngestResponse(201, nextId, jobs'[nextId], FALSE)]
        /\ UNCHANGED <<resp, service, call, executions>>

\* "Create job" and "Schedule background processing" of the request in slot
\* r, which found no job when it checked.
create(r) ==
    LET sub == requests[r].sub
    IN  /\ r \in DOMAIN requests
        /\ requests[r].pc = "create"
        /\ nextId <= MaxJobs
        /\ jobs' = jobs @@ (nextId :> NewJob(sub.file_hash, sub.ingestion_type, "running"))
        /\ nextId' = nextId + 1
        /\ failures' = failures @@ (nextId :> 0)
        /\ queue' = delay(queue, sub.task, nextId)
        /\ requests' = [requests EXCEPT ![r].pc = "done",
              ![r].response = IngestResponse(201, nextId, jobs'[nextId], FALSE)]
        /\ UNCHANGED <<resp, service, call, executions>>

\* The response of the request in slot r leaves the handler.
reply(r) ==
    /\ r \in DOMAIN requests
    /\ requests[r].pc = "done"
    /\ requests' = [q \in DOMAIN requests \ {r} |-> requests[q]]
    /\ UNCHANGED <<jobs, nextId, queue, resp, failures, service, call, executions>>

NextRace ==
    \/ \E r \in Slots, sub \in Submissions : check(r, sub)
    \/ \E r \in Slots : create(r)
    \/ \E r \in Slots : reply(r)

SpecRace == Init /\ [][NextRace]_vars

----------------------------------------------------------------------------
\* tasks.py, the executions taken statement by statement: each read and each
\* save of the job is a step of its own, so that deletes, other executions
\* and a second delivery of the same message can come in between.

JobTasks ==
    {"process_uploaded_file_task", "process_s3_upload_task",
     "process_s3_directory_upload_task"}

\* The units of work bound to job j: messages with the broker and executions
\* under way.
Units(j) ==
    BagCardinality([m \in {x \in BagToSet(queue) : x.job_id = j} |->
                       CopiesIn(m, queue)])
    + BagCardinality([x \in {y \in BagToSet(executions) : y.m.job_id = j} |->
                         CopiesIn(x, executions)])

\* Execution e is over: it returned or its exception left it.
Ended(e) == executions (-) SetToBag({e})

\* Execution e goes on as execution x.
Stepped(e, x) == (executions (-) SetToBag({e})) (+) SetToBag({x})

\* self.request of the execution of message m: the task, its arguments and
\* the retries so far; the countdown is spent when the execution starts.
request(m) == [m EXCEPT !.countdown = 0]

\* A worker takes message m and runs the task up to the call of the
\* processing function: job = Job.objects.get(id=job_id), and without the
\* processing service job.mark_failed(...) and return. The broker may
\* deliver the message once more (again), keeping it, while fewer than
\* MaxRequests units of the job exist. Of the instance an execution holds
\* only retry_count reaches a later save unchanged (every other saved column
\* is assigned just before its save), so the execution keeps it as
\* current_retry.
start(m, again) ==
    LET job_id == m.job_id
    IN  /\ BagIn(m, queue)
        /\ m.task \in JobTasks
        /\ resp = NoResp
        /\ again => Units(job_id) < MaxRequests
        /\ queue' = IF again THEN queue ELSE queue (-) SetToBag({m})
        /\ IF job_id \notin DOMAIN jobs THEN
              UNCHANGED <<jobs, executions>>
           ELSE IF ~service THEN
              /\ jobs' = [jobs EXCEPT ![job_id] =
                            mark_failed(@, "Processing service not available")]
              /\ UNCHANGED executions
           ELSE
              /\ executions' = executions (+)
                    SetToBag({[m |-> request(m), pc |-> "process",
                               current_retry |-> 0]})
              /\ UNCHANGED jobs
        /\ UNCHANGED <<nextId, resp, failures, service, call, requests>>

\* The processing function returns, having completed the job, or raises.
\* With the job deleted meanwhile the refresh_from_db() that follows a
\* return raises Job.DoesNotExist, which ends the execution. When it raises,
\* except Exception runs: job = Job.objects.get(id=job_id), current_retry =
\* job.retry_count and the choice of the branch; Job.DoesNotExist is logged
\* and the exception re-raised.
process(e, outcome) ==
    LET m == e.m
        job_id == m.job_id
    IN  /\ BagIn(e, executions)
        /\ e.pc = "process"
        /\ resp = NoResp
        /\ IF outcome = "completed" THEN
              /\ jobs' = IF job_id \in DOMAIN jobs
                         THEN [jobs EXCEPT ![job_id] = mark_completed(@, "Ingested")]
                         ELSE jobs
              /\ executions' = Ended(e)
           ELSE
              /\ UNCHANGED jobs
              /\ IF job_id \notin DOMAIN jobs THEN
                    executions' = Ended(e)
                 ELSE IF m.task = "process_uploaded_file_task" THEN
                    executions' = Stepped(e, [e EXCEPT
                       !.current_retry = jobs[job_id].retry_count,
                       !.pc = IF can_retry(jobs[job_id].retry_count)
                              THEN "increment" ELSE "mark_failed"])
                 ELSE
                    executions' = Stepped(e, [e EXCEPT !.pc = "mark_failed"])
        /\ UNCHANGED <<nextId, queue, resp, failures, service, call, requests>>

\* The count raised in the database (retry_count = F('retry_count') + 1)
\* instead of on the instance.
increment_in_database(e) ==
    LET job_id == e.m.job_id
    IN  /\ BagIn(e, executions)
        /\ e.pc = "increment"
        /\ resp = NoResp
        /\ IF job_id \notin DOMAIN jobs THEN
              /\ executions' = Ended(e)
              /\ UNCHANGED jobs
           ELSE
              /\ jobs' = [jobs EXCEPT ![job_id].retry_count = @ + 1]
              /\ executions' = Stepped(e, [e EXCEPT !.pc = "save"])
        /\ UNCHANGED <<nextId, queue, resp, failures, service, call, requests>>

\* job.increment_retry(): the count raised on the instance and saved with
\* update_fields. A save with update_fields that finds no row raises
\* DatabaseError, which no clause of the task catches.
increment(e) ==
    LET job_id == e.m.job_id
        new_retry_count == e.current_retry + 1
    IN  /\ BagIn(e, executions)
        /\ e.pc = "increment"
        /\ resp = NoResp
        /\ IF job_id \notin DOMAIN jobs THEN
              /\ executions' = Ended(e)
              /\ UNCHANGED jobs
           ELSE
              /\ jobs' = [jobs EXCEPT ![job_id].retry_count = new_retry_count]
              /\ executions' = Stepped(e, [e EXCEPT !.pc = "save"])
        /\ UNCHANGED <<nextId, queue, resp, failures, service, call, requests>>

\* The second save done without update_fields: finding no row to update it
\* inserts the instance, and the retry is sent.
save_and_retry_inserts(e) ==
    LET m == e.m
        job_id == m.job_id
        new_retry_count == e.current_retry + 1
        job == [NewJob(compute_sha256_bytes(1), "Postgres", "running") EXCEPT
                   !.message = RetryMsg(new_retry_count),
                   !.retry_count = new_retry_count]
    IN  /\ BagIn(e, executions)
        /\ e.pc = "save"
        /\ resp = NoResp
        /\ jobs' = IF job_id \in DOMAIN jobs
                   THEN [jobs EXCEPT ![job_id] =
                           [@ EXCEPT !.status = "running",
                                     !.message = RetryMsg(new_retry_count),
                                     !.retry_count = new_retry_count]]
                   ELSE jobs @@ (job_id :> job)
        /\ failures' = IF job_id \in DOMAIN failures
                       THEN failures ELSE failures @@ (job_id :> 0)
        /\ queue' = retry(queue, m, RetryDelay * new_retry_count)
        /\ executions' = Ended(e)
        /\ UNCHANGED <<nextId, resp, service, call, requests>>

\* job.status = 'running', job.message = ..., job.save(update_fields=[...])
\* and raise self.retry(...). DatabaseError for a missing row leaves before
\* self.retry is reached.
save_and_retry(e) ==
    LET m == e.m
        job_id == m.job_id
        new_retry_count == e.current_retry + 1
    IN  /\ BagIn(e, executions)
        /\ e.pc = "save"
        /\ resp = NoResp
        /\ IF job_id \notin DOMAIN jobs THEN
              UNCHANGED <<jobs, queue>>
           ELSE
              /\ jobs' = [jobs EXCEPT ![job_id] =
                            [@ EXCEPT !.status = "running",
                                      !.message = RetryMsg(new_retry_count),
                                      !.retry_count = new_retry_count]]
              /\ queue' = retry(queue, m, RetryDelay * new_retry_count)
        /\ executions' = Ended(e)
        /\ UNCHANGED <<nextId, resp, failures, service, call, requests>>

\* job.mark_failed(message=...) on the instance the handler read, saving
\* status and message, then the final raise. DatabaseError for a missing
\* row.
fail(e) ==
    LET m == e.m
        job_id == m.job_id
    IN  /\ BagIn(e, executions)
        /\ e.pc = "mark_failed"
        /\ resp = NoResp
        /\ jobs' = IF job_id \in DOMAIN jobs
                   THEN [jobs EXCEPT ![job_id] = mark_failed(@,
                           IF m.task = "process_uploaded_file_task"
                           THEN "Failed after 5 retries. Last error: exc"
                           ELSE "S3 upload failed: exc")]
                   ELSE jobs
        /\ executions' = Ended(e)
        /\ UNCHANGED <<nextId, queue, resp, failures, service, call, requests>>

\* Nothing is stored and no unit of work is left.
Idle == jobs = <<>> /\ queue = EmptyBag /\ executions = EmptyBag

\* The interleavings followed are those of the units of work of one job,
\* with each other and with the requests on the job: intake creates the next
\* job once the system is idle.
NextSteps ==
    \/ \E file \in Contents :
          Idle /\ ingest_postgres(file) /\ UNCHANGED <<call, inflight>>
    \/ \E files \in Uploads \ {<<>>} :
          Idle /\ upload_to_s3(files) /\ UNCHANGED <<call, inflight>>
    \/ Respond /\ UNCHANGED <<call, inflight>>
    \/ \E m \in Messages, again \in BOOLEAN : start(m, again)
    \/ \E e \in BagToSet(executions), outcome \in Outcomes : process(e, outcome)
    \/ \E e \in BagToSet(executions) : increment(e)
    \/ \E e \in BagToSet(executions) : save_and_retry(e)
    \/ \E e \in BagToSet(executions) : fail(e)
    \/ \E queryset \in SUBSET DOMAIN jobs :
          retry_failed_jobs(queryset) /\ UNCHANGED <<call, inflight>>
    \/ \E queryset \in SUBSET DOMAIN jobs :
          bulk_delete_jobs(queryset) /\ UNCHANGED <<call, inflight>>
    \/ \E job_id \in 1..MaxJobs : destroy(job_id) /\ UNCHANGED <<call, inflight>>

SpecSteps == Init /\ [][NextSteps]_vars

\* The executions of the units of work of job j.
WorkerOf(j) ==
    /\ \E m \in Messages, outcome \in Outcomes :
          /\ m.job_id = j
          /\ \/ process_uploaded_file_task(m, outcome)
             \/ process_s3_upload_task(m, outcome)
             \/ process_s3_directory_upload_task(m, outcome)
    /\ UNCHANGED <<call, inflight>>

\* The application with a worker pool of its own: the workers run beside the
\* web process, so a waiting message is executed however many requests are
\* served in between, and no job's messages are passed over for ever.
SpecPool ==
    /\ Spec
    /\ WF_vars(Respond /\ UNCHANGED <<call, inflight>>)
    /\ \A j \in 1..MaxJobs : SF_vars(WorkerOf(j))

----------------------------------------------------------------------------
\* Properties

\* Some Job with this dedup key and this status is stored.
Holds(file_hash, ingestion_type, status) ==
    \E j \in DOMAIN jobs : /\ jobs[j].file_hash = file_hash
                           /\ jobs[j].ingestion_type = ingestion_type
                           /\ jobs[j].status = status

\* A step that serves a Postgres-channel submission of the bytes c.
PostgresSubmission(c) ==
    \/ ingest_postgres(c)
    \/ ingest_postgres_from_s3([s3_key |-> "key", contents |-> c])

\* The messages of the broker that are bound to job j.
MessagesOf(q, j) == {m \in BagToSet(q) : m.job_id = j}

\* C1: a Postgres-channel submission with fingerprint F, arriving while a
\* completed Postgres job with file_hash F is stored, is answered
\* is_duplicate=true with the id and status of a completed job of that key,
\* creates no Job and dispatches no work.
C1_CompletedShortCircuits ==
    [][\A c \in Contents :
         LET F == compute_sha256_bytes(c)
         IN  (Holds(F, "Postgres", "completed") /\ PostgresSubmission(c))
             => /\ resp'.is_duplicate = TRUE
                /\ resp'.job_id \in DOMAIN jobs
                /\ jobs[resp'.job_id].file_hash = F
                /\ jobs[resp'.job_id].ingestion_type = "Postgres"
                /\ jobs[resp'.job_id].status = "completed"
                /\ resp'.status = "completed"
                /\ resp'.file_hash = F
                /\ jobs' = jobs
                /\ nextId' = nextId
                /\ queue' = queue]_vars

C1_Witness ==
    /\ resp.is_duplicate = TRUE
    /\ resp.ingestion_type = "Postgres"
    /\ resp.job_id \in DOMAIN jobs
    /\ jobs[resp.job_id].status = "completed"

\* C2: a Postgres-channel submission with fingerprint F, arriving while no
\* Postgres job with file_hash F is completed, creates a Job under an id never
\* handed out before, answers is_duplicate=false and dispatches one unit of
\* work bound to the new job.
C2_NoCompletedCreates ==
    [][\A c \in Contents :
         LET F == compute_sha256_bytes(c)
             id == resp'.job_id
         IN  (~Holds(F, "Postgres", "completed") /\ PostgresSubmission(c))
             => /\ resp'.is_duplicate = FALSE
                /\ id \notin 1..(nextId - 1)
                /\ id \notin DOMAIN jobs
                /\ DOMAIN jobs' = DOMAIN jobs \cup {id}
                /\ \A j \in DOMAIN jobs : jobs'[j] = jobs[j]
                /\ jobs'[id].file_hash = F
                /\ jobs'[id].ingestion_type = "Postgres"
                /\ MessagesOf(queue', id) =
                      {[task |-> "process_uploaded_file_task", job_id |-> id,
                        retries |-> 0, countdown |-> 0]}
                /\ BagCardinality(queue') = BagCardinality(queue) + 1
                /\ \A m \in BagToSet(queue) : CopiesIn(m, queue') = CopiesIn(m, queue)]_vars

\* A new Postgres job was just created although a failed one with the same
\* fingerprint is stored.
C2_Witness ==
    /\ resp.code = 201
    /\ resp.is_duplicate = FALSE
    /\ resp.ingestion_type = "Postgres"
    /\ \E j \in DOMAIN jobs :
          /\ j # resp.job_id
          /\ jobs[j].file_hash = resp.file_hash
          /\ jobs[j].ingestion_type = "Postgres"
          /\ jobs[j].status = "failed"

\* The fingerprint upload_to_s3 computes for an accepted upload.
UploadHash(files) == UploadPayloads[files].value.file_hash

\* C3: an S3-channel submission with fingerprint F, arriving while any S3 job
\* with file_hash F is stored, whatever its status, is answered
\* is_duplicate=true with that job's id and current status, creates no Job
\* and dispatches no work.
C3_AnyExistingShortCircuits ==
    [][resp' # resp =>
       \A files \in Uploads \ {<<>>} :
         LET F == UploadHash(files)
         IN  (/\ UploadPayloads[files].ok
              /\ \E s \in {"queued", "running", "completed", "failed"} : Holds(F, "S3", s)
              /\ upload_to_s3(files))
             => /\ resp'.is_duplicate = TRUE
                /\ resp'.job_id \in DOMAIN jobs
                /\ jobs[resp'.job_id].file_hash = F
                /\ jobs[resp'.job_id].ingestion_type = "S3"
                /\ resp'.status = jobs[resp'.job_id].status
                /\ jobs' = jobs
                /\ nextId' = nextId
                /\ queue' = queue]_vars

C3_Witness ==
    /\ resp.is_duplicate = TRUE
    /\ resp.ingestion_type = "S3"
    /\ resp.status = "failed"
    /\ resp.job_id \in DOMAIN jobs
    /\ jobs[resp.job_id].status = "failed"

\* C4: for every pair (file_hash, ingestion_type) at most one Job is completed.
C4_OneCompletedPerKey ==
    \A j, k \in DOMAIN jobs :
        (/\ jobs[j].file_hash = jobs[k].file_hash
         /\ jobs[j].ingestion_type = jobs[k].ingestion_type
         /\ jobs[j].status = "completed"
         /\ jobs[k].status = "completed")
        => j = k

\* An execution of the file task for message m in which processing raises
\* while the job exists.
FileTaskRaises(m) ==
    /\ service
    /\ m.job_id \in DOMAIN jobs
    /\ process_uploaded_file_task(m, "raise")

\* An execution of one of the S3 tasks for message m in which processing
\* raises while the job exists.
S3TaskRaises(m) ==
    /\ service
    /\ m.job_id \in DOMAIN jobs
    /\ \/ process_s3_upload_task(m, "raise")
       \/ process_s3_directory_upload_task(m, "raise")

PostgresJobs == {j \in DOMAIN jobs : jobs[j].ingestion_type = "Postgres"}

\* C5: a job of the ingestion channel whose processing has failed 5 times is
\* failed with retry_count 5, and no 6th failing execution happens.
C5_FailedAfterFiveFailures ==
    \A j \in PostgresJobs :
        /\ failures[j] <= 5
        /\ failures[j] = 5 => (jobs[j].status = "failed" /\ jobs[j].retry_count = 5)

\* C5 as amended: the job is retried 5 times, so its processing can fail 6
\* times. With 4 failures counted in retry_count, the 5th failure leaves the
\* job running with retry_count 5 and a 6th execution pending; the 6th failure
\* (the failing execution that finds retry_count 5) ends it failed with
\* retry_count 5 and nothing enqueued; a 7th failing execution never happens.
C5_FailedAfterSixFailures ==
    /\ [](\A j \in PostgresJobs :
            /\ failures[j] <= 6
            /\ failures[j] = 6 => MessagesOf(queue, j) = {})
    /\ [][\A m \in BagToSet(queue) :
            LET j == m.job_id
            IN  /\ (FileTaskRaises(m) /\ failures[j] = 4 /\ jobs[j].retry_count = 4)
                   => /\ failures'[j] = 5
                      /\ jobs'[j].status = "running"
                      /\ jobs'[j].retry_count = 5
                      /\ \E n \in MessagesOf(queue', j) : n.retries = 5
                /\ (FileTaskRaises(m) /\ jobs[j].retry_count = 5)
                   => /\ jobs'[j].status = "failed"
                      /\ jobs'[j].retry_count = 5
                      /\ MessagesOf(queue', j) = {}
                /\ (FileTaskRaises(m) /\ failures[j] = 5 /\ jobs[j].retry_count = 5)
                   => failures'[j] = 6]_vars

C5_Witness ==
    \E j \in PostgresJobs :
        /\ failures[j] = 6
        /\ jobs[j].status = "failed"
        /\ jobs[j].retry_count = 5

\* C6: every change of a job's status is queued -> running, running ->
\* completed, running -> failed, failed -> running by an automatic retry within
\* the bound, or failed -> queued by the admin retry.
C6_StatusTransitions ==
    [][\A j \in DOMAIN jobs \cap DOMAIN jobs' :
         jobs[j].status # jobs'[j].status
         => \/ jobs[j].status = "queued" /\ jobs'[j].status = "running"
            \/ jobs[j].status = "running" /\ jobs'[j].status = "completed"
            \/ jobs[j].status = "running" /\ jobs'[j].status = "failed"
            \/ /\ jobs[j].status = "failed" /\ jobs'[j].status = "running"
               /\ jobs'[j].retry_count = jobs[j].retry_count + 1
               /\ jobs'[j].retry_count <= 5
            \/ /\ jobs[j].status = "failed" /\ jobs'[j].status = "queued"
               /\ jobs'[j].message = "Retried from admin"]_vars

\* A job that went running -> failed -> queued next to one that went
\* running -> completed.
C6_Witness ==
    \E j, k \in DOMAIN jobs :
        /\ jobs[j].status = "queued"
        /\ jobs[j].message = "Retried from admin"
        /\ jobs[k].status = "completed"

\* C7: no operation on a job, the update through the REST resource included,
\* decreases its retry_count.
C7_RetryCountNeverDecreases ==
    [][\A j \in DOMAIN jobs \cap DOMAIN jobs' :
         jobs'[j].retry_count >= jobs[j].retry_count]_vars

\* C8: when processing raises in the file task for a stored job with
\* retry_count r < 5, the handler leaves retry_count r+1, status running, the
\* message 'Retry (r+1)/5 ...', and sends the same unit of work again exactly
\* once, delayed by 60*(r+1) seconds.
C8_RetryStep ==
    [][\A m \in BagToSet(queue) : \A r \in 0..4 :
         (FileTaskRaises(m) /\ jobs[m.job_id].retry_count = r)
         => /\ m.job_id \in DOMAIN jobs'
            /\ jobs'[m.job_id].retry_count = r + 1
            /\ jobs'[m.job_id].status = "running"
            /\ jobs'[m.job_id].message =
                  "Retry " \o ToString(r + 1) \o "/5 - Previous error: exc"
            /\ queue' = (queue (-) SetToBag({m}))
                        (+) SetToBag({[task |-> "process_uploaded_file_task",
                                       job_id |-> m.job_id,
                                       retries |-> m.retries + 1,
                                       countdown |-> 60 * (r + 1)]})]_vars

\* C9: when processing raises in an S3 task for a stored job with
\* retry_count < 5, retry_count is incremented, the job stays running and the
\* work is sent again.
C9_S3RetryStep ==
    [][\A m \in BagToSet(queue) :
         (S3TaskRaises(m) /\ jobs[m.job_id].retry_count < 5)
         => /\ m.job_id \in DOMAIN jobs'
            /\ jobs'[m.job_id].retry_count = jobs[m.job_id].retry_count + 1
            /\ jobs'[m.job_id].status = "running"
            /\ MessagesOf(queue', m.job_id) # {}]_vars

\* Messages mark_failed is tried with on every stored job.
SomeMessages == {"Test error", "Failed after 5 retries. Last error: exc"}

\* C10: when processing raises in the file task for a stored job with
\* retry_count >= 5, the job ends failed with the final message, retry_count
\* as it was and nothing enqueued for it; and mark_failed with a non-empty
\* message leaves status failed and that message.
C10_PermanentFailure ==
    /\ [](\A j \in DOMAIN jobs : \A msg \in SomeMessages :
            /\ mark_failed(jobs[j], msg).status = "failed"
            /\ mark_failed(jobs[j], msg).message = msg)
    /\ [][\A m \in BagToSet(queue) :
            (FileTaskRaises(m) /\ jobs[m.job_id].retry_count >= 5)
            => /\ m.job_id \in DOMAIN jobs'
               /\ jobs'[m.job_id].status = "failed"
               /\ jobs'[m.job_id].message = "Failed after 5 retries. Last error: exc"
               /\ jobs'[m.job_id].retry_count = jobs[m.job_id].retry_count
               /\ MessagesOf(queue', m.job_id) = {}
               /\ queue' = queue (-) SetToBag({m})]_vars

C10_Witness ==
    \E j \in DOMAIN jobs :
        /\ jobs[j].status = "failed"
        /\ jobs[j].message = "Failed after 5 retries. Last error: exc"
        /\ jobs[j].retry_count = 5
        /\ MessagesOf(queue, j) = {}

\* C11: the admin retry applied to a selection changes exactly the selected
\* jobs that are failed: each gets status queued and message 'Retried from
\* admin' with every other field as it was; every other job, selected or not,
\* is left as it was, and no job appears or disappears.
C11_AdminRetryFrame ==
    [][\A queryset \in SUBSET DOMAIN jobs :
         retry_failed_jobs(queryset)
         => /\ DOMAIN jobs' = DOMAIN jobs
            /\ \A j \in DOMAIN jobs :
                 IF j \in queryset /\ jobs[j].status = "failed"
                 THEN /\ jobs'[j].status = "queued"
                      /\ jobs'[j].message = "Retried from admin"
                      /\ jobs'[j].retry_count = jobs[j].retry_count
                      /\ jobs'[j].file_hash = jobs[j].file_hash
                      /\ jobs'[j].ingestion_type = jobs[j].ingestion_type
                 ELSE jobs'[j] = jobs[j]]_vars

\* A failed job with retries behind it was reset by the admin retry while
\* another job, not failed, kept its state.
C11_Witness ==
    \E j, k \in DOMAIN jobs :
        /\ jobs[j].status = "queued"
        /\ jobs[j].message = "Retried from admin"
        /\ jobs[j].retry_count = 5
        /\ jobs[k].status = "running"
        /\ jobs[k].message # "Retried from admin"

\* C12: a job the admin retry has moved to queued eventually leaves queued
\* (its unit of work is executed again), unless it is deleted.
C12_QueuedJobRunsAgain ==
    \A j \in 1..MaxJobs :
        (j \in DOMAIN jobs /\ jobs[j].status = "queued")
           ~> (j \notin DOMAIN jobs \/ jobs[j].status # "queued")

\* An execution of the task of message m, whatever processing would do.
Execution(m) ==
    \E outcome \in Outcomes :
        \/ process_uploaded_file_task(m, outcome)
        \/ process_s3_upload_task(m, outcome)
        \/ process_s3_directory_upload_task(m, outcome)

\* C13: an execution of any of the three tasks that does not find its job
\* ends with the lookup error: the message is consumed and not sent again,
\* processing is not run and the Job store is not written.
C13_MissingJobIsFatal ==
    [][\A m \in BagToSet(queue) :
         (m.job_id \notin DOMAIN jobs /\ Execution(m))
         => /\ queue' = queue (-) SetToBag({m})
            /\ \A n \in BagToSet(queue') : CopiesIn(n, queue') <= CopiesIn(n, queue)
            /\ jobs' = jobs
            /\ failures' = failures]_vars

\* Both jobs were deleted while their work, of two different tasks, was still
\* waiting: the executions to come find no job.
C13_Witness ==
    /\ resp = NoResp
    /\ \E m, n \in BagToSet(queue) :
          /\ m.task = "process_uploaded_file_task"
          /\ n.task # "process_uploaded_file_task"
          /\ m.job_id \notin DOMAIN jobs
          /\ n.job_id \notin DOMAIN jobs

\* The file name has a '..' segment between separators of either convention.
HasDotDot(name) ==
    LET segments == Split(Replace(name, "\\", "/"), "/")
    IN  \E i \in 1..Len(segments) : segments[i] = <<".", ".">>

\* The uploads C14 lists: no file, one empty plain file, one '.zip' file that
\* is no zip archive, several files one of which has an empty name or a name
\* with a '..' segment.
RejectedUpload(files) ==
    \/ files = <<>>
    \/ Len(files) = 1 /\ ~files[1].zip /\ files[1].data = EmptyBytes
    \/ Len(files) = 1 /\ files[1].zip /\ ~is_zipfile(files[1].data)
    \/ Len(files) > 1 /\ \E i \in 1..Len(files) :
           files[i].name = <<>> \/ HasDotDot(files[i].name)

RejectedUploads == {files \in Uploads : RejectedUpload(files)}

C15_FailurePersisted ==
    [][\A m \in Messages :
          (FileTaskRaises(m) \/ S3TaskRaises(m))
          => /\ m.job_id \in DOMAIN jobs'
             /\ jobs'[m.job_id] # jobs[m.job_id]
             /\ \/ /\ jobs'[m.job_id].status = "failed"
                   /\ jobs'[m.job_id].message # jobs[m.job_id].message
                \/ /\ jobs'[m.job_id].status = "running"
                   /\ jobs'[m.job_id].retry_count = jobs[m.job_id].retry_count + 1
                   /\ jobs'[m.job_id].message =
                         RetryMsg(jobs'[m.job_id].retry_count)]_vars

\* Processing has raised for a job of each channel: one is in a retry state,
\* the other failed.
C15_Witness ==
    \E j, k \in DOMAIN jobs :
        /\ jobs[j].ingestion_type = "Postgres"
        /\ failures[j] >= 1
        /\ jobs[j].status = "running"
        /\ jobs[j].retry_count >= 1
        /\ jobs[k].ingestion_type = "S3"
        /\ failures[k] = 1
        /\ jobs[k].status = "failed"

\* The number of messages of the broker q, copies counted, among those of S.
RECURSIVE Count(_, _)
Count(q, S) ==
    IF S = {} THEN 0
    ELSE LET m == CHOOSE x \in S : TRUE
         IN  CopiesIn(m, q) + Count(q, S \ {m})

\* The number of units of work in the broker q that are bound to job j.
Dispatched(q, j) == Count(q, MessagesOf(q, j))

\* The step created job id for the submission (file_hash, ingestion_type) as
\* C16 says: running, retry_count 0, one unit of work, reported as running.
CreatedAsClaimed(id, file_hash, ingestion_type) ==
    /\ DOMAIN jobs' = DOMAIN jobs \cup {id}
    /\ id \notin DOMAIN jobs
    /\ jobs'[id].status = "running"
    /\ jobs'[id].retry_count = 0
    /\ jobs'[id].file_hash = file_hash
    /\ jobs'[id].ingestion_type = ingestion_type
    /\ Dispatched(queue, id) = 0
    /\ Dispatched(queue', id) = 1
    /\ \A m \in BagToSet(queue') : CopiesIn(m, queue') =
          CopiesIn(m, queue) + (IF m.job_id = id THEN 1 ELSE 0)
    /\ resp'.job_id = id
    /\ resp'.status = "running"
    /\ resp'.file_hash = file_hash
    /\ resp'.ingestion_type = ingestion_type

\* C16: a step of an intake handler that creates a Job creates it running
\* with retry_count 0 and the fingerprint and channel of the submission,
\* sends exactly one unit of work bound to the new id, and answers with that
\* id and status running.
C16_CreatedRunningWithOneUnit ==
    [][(jobs' # jobs /\ resp' # resp)
       => /\ \A file \in Contents :
                ingest_postgres(file)
                => CreatedAsClaimed(nextId, compute_sha256_bytes(file), "Postgres")
          /\ \A req \in S3Requests :
                ingest_postgres_from_s3(req)
                => CreatedAsClaimed(nextId, compute_sha256_bytes(req.contents),
                                    "Postgres")
          /\ \A files \in Uploads \ RejectedUploads :
                upload_to_s3(files)
                => CreatedAsClaimed(nextId, UploadHash(files), "S3")]_vars

\* Jobs were created on both channels; the one just created for a upload of
\* several files is running with its one unit of work waiting.
C16_Witness ==
    /\ resp.code = 201
    /\ resp.ingestion_type = "S3"
    /\ resp.job_id \in DOMAIN jobs
    /\ jobs[resp.job_id].status = "running"
    /\ \E m \in Messages : /\ m.job_id = resp.job_id
                            /\ m.task = "process_s3_directory_upload_task"
    /\ PostgresJobs # {}

\* The fingerprints a submission can have.
FileHashes ==
    {compute_sha256_bytes(c) : c \in Contents}
    \cup {UploadHash(files) : files \in Uploads \ RejectedUploads}

\* Job j was created and its record has been deleted since: ids are handed
\* out in order and never again.
Deleted(j) == j < nextId /\ j \notin DOMAIN jobs

\* Job j has no record: the status endpoint answers NotFound for it and no
\* deduplication check of either channel finds it.
Absent(j) ==
    /\ j \notin DOMAIN jobs
    /\ StatusView_get(j).code = 404
    /\ \A file_hash \in FileHashes :
          /\ j \notin duplicate_of(file_hash, "Postgres")
          /\ j \notin ExistingJobs(file_hash, "S3")

\* C17: deleting a job removes its record whatever its status, and a job
\* whose record was deleted stays without a record in every later step: the
\* status endpoint answers NotFound and no deduplication check counts it.
C17_DeletedIsGone ==
    [][\A j \in 1..MaxJobs :
          ((j \in DOMAIN jobs /\ destroy(j)) \/ Deleted(j)) => Absent(j)']_vars

\* A job was deleted while its work was in flight, and a submission made
\* afterwards has created a new job.
C17_Witness ==
    \E j \in 1..MaxJobs :
        /\ Deleted(j)
        /\ MessagesOf(queue, j) # {}
        /\ resp.code = 201
        /\ resp.job_id > j

\* normalize_relative_path was called and has returned a path.
Normalized ==
    /\ arg.fn = "normalize_relative_path"
    /\ result.ok

\* C18: normalize_relative_path is idempotent: applied to a path it has
\* returned, it succeeds and returns that path unchanged.
C18_NormalizeIdempotent ==
    Normalized => normalize_relative_path(result.value) = Ok(result.value)

\* normalize_relative_path was called and has returned or raised.
NormalizeCalled ==
    /\ arg.fn = "normalize_relative_path"
    /\ ~NotCalled

\* The file name without the separators it starts with.
BelowSeparators(filename) == LStrip(Replace(filename, "\\", "/"), {"/"})

\* C19: normalize_relative_path raises for a name with a '..' segment
\* wherever the segment is and whichever separator delimits it; a name that
\* starts with separators is treated as the name below them (it succeeds
\* when that one does, with the same result unless whitespace follows the
\* separators); a path returned is not empty, has no empty, '.' or '..'
\* segment, and neither starts nor ends with '/'.
C19_NormalizeSegments ==
    NormalizeCalled =>
        LET filename == arg.filename
            below == BelowSeparators(filename)
            segments == Split(result.value, "/")
        IN  /\ HasDotDot(filename) => ~result.ok
            /\ (below # Replace(filename, "\\", "/")
                     /\ normalize_relative_path(below).ok)
                => /\ result.ok
                   /\ Head(below) # " "
                        => result = normalize_relative_path(below)
            /\ result.ok
                => /\ result.value # <<>>
                   /\ Head(result.value) # "/"
                   /\ result.value[Len(result.value)] # "/"
                   /\ \A i \in 1..Len(segments) :
                         segments[i] \notin {<<>>, <<".">>, <<".", ".">>}

\* A name that starts with a separator and has a '..' segment behind a
\* backslash was refused.
C19_Witness ==
    /\ NormalizeCalled
    /\ Len(arg.filename) >= 5
    /\ Head(arg.filename) = "/"
    /\ SubSeq(arg.filename, Len(arg.filename) - 2, Len(arg.filename))
          = <<"\\", ".", ".">>
    /\ ~result.ok

\* The entry list in every order: the reorderings of a list of n entries are
\* its compositions with the permutations of 1..n.
Reorderings(entries) ==
    {[i \in 1..Len(entries) |-> entries[f[i]]] :
        f \in Permutations(1..Len(entries))}

\* C20: compute_directory_hash returns the same fingerprint for the entry
\* list it was called with and for every reordering of that list, also when
\* several entries have the same path.
C20_HashIgnoresOrder ==
    (arg.fn = "compute_directory_hash" /\ ~NotCalled)
    => \A entries \in Reorderings(arg.entries) :
          compute_directory_hash(entries).value = result.value

\* C21: the creation step of a request that found no job when it checked
\* creates a Job and dispatches one unit of work although a job of the same
\* (file_hash, ingestion_type) has been created since by another request.
C21_CheckThenCreateRaces ==
    [][\A r \in DOMAIN requests :
          LET sub == requests[r].sub
          IN  (/\ requests[r].pc = "create"
               /\ ExistingJobs(sub.file_hash, sub.ingestion_type) # {}
               /\ requests'[r].pc = "done")
              => /\ DOMAIN jobs' = DOMAIN jobs \cup {nextId}
                 /\ jobs'[nextId].file_hash = sub.file_hash
                 /\ jobs'[nextId].ingestion_type = sub.ingestion_type
                 /\ Dispatched(queue', nextId) = 1
                 /\ requests'[r].response.code = 201
                 /\ requests'[r].response.job_id = nextId]_vars

\* Two requests that overlapped have both created a job for the same
\* fingerprint on the S3 channel, and both units of work are waiting.
C21_Witness ==
    /\ DOMAIN requests = {1, 2}
    /\ requests[1].sub = requests[2].sub
    /\ requests[1].sub.ingestion_type = "S3"
    /\ requests[1].response.code = 201
    /\ requests[2].response.code = 201
    /\ requests[1].response.job_id # requests[2].response.job_id
    /\ \A r \in {1, 2} : Dispatched(queue, requests[r].response.job_id) = 1

Channels == {"Postgres", "S3"}

\* The jobs stored for the dedup key (file_hash, ingestion_type).
JobsOfKey(file_hash, ingestion_type) ==
    {j \in DOMAIN jobs :
        <<jobs[j].file_hash, jobs[j].ingestion_type>> = <<file_hash, ingestion_type>>}

\* The step answers a submission of fingerprint F on channel C within the
\* channel: a job it reports as duplicate is a job of (F, C), and with no job
\* of (F, C) stored it reports none and creates one.
ScopedAnswer(F, C) ==
    /\ resp'.is_duplicate
        => /\ resp'.job_id \in JobsOfKey(F, C)
           /\ resp'.ingestion_type = C
    /\ JobsOfKey(F, C) = {}
        => /\ ~resp'.is_duplicate
           /\ resp'.code = 201
           /\ jobs'[resp'.job_id].ingestion_type = C

\* C22: has_successful_job(F, C) is true exactly when a completed job of
\* file_hash F and ingestion_type C is stored, and a submission is never
\* short-circuited by a job of the other channel, whatever that job's hash
\* and status.
C22_DedupScopedByChannel ==
    [][/\ \A F \in FileHashes, C \in Channels :
            has_successful_job(F, C)
            <=> \E j \in JobsOfKey(F, C) : jobs[j].status = "completed"
       /\ resp' # resp
            => /\ \A c \in Contents :
                     PostgresSubmission(c)
                     => ScopedAnswer(compute_sha256_bytes(c), "Postgres")
               /\ \A files \in Uploads \ RejectedUploads :
                     upload_to_s3(files) => ScopedAnswer(UploadHash(files), "S3")]_vars

\* With a completed S3 job of fingerprint F stored and no Postgres job of F,
\* a Postgres submission of F has created a job.
C22_Witness ==
    /\ resp.code = 201
    /\ resp.ingestion_type = "Postgres"
    /\ JobsOfKey(resp.file_hash, "Postgres") = {resp.job_id}
    /\ \E j \in JobsOfKey(resp.file_hash, "S3") : jobs[j].status = "completed"

\* The operation fn was called on a job and has returned.
Returned(fn) ==
    /\ arg.fn = fn
    /\ result.ok

\* C23: mark_completed with any subset of the result fields leaves the row
\* and the instance completed, with each supplied field at the supplied value
\* and updated_at at the time of the call, and with every other field as it
\* was: only status, updated_at and the supplied fields are written.
C23_MarkCompletedFrame ==
    Returned("mark_completed") =>
        LET kwargs == arg.kwargs
            row == result.value.row
            instance == result.value.instance
        IN  /\ row.status = "completed" /\ instance.status = "completed"
            /\ row.updated_at = arg.now /\ instance.updated_at = arg.now
            /\ \A f \in DOMAIN kwargs :
                  row[f] = kwargs[f] /\ instance[f] = kwargs[f]
            /\ \A f \in Fields \ (DOMAIN kwargs \cup {"status", "updated_at"}) :
                  row[f] = arg.row[f] /\ instance[f] = arg.instance[f]

\* mark_completed(table_name=, file_count=) on a job whose row had been
\* written since the caller loaded it.
C23_Witness ==
    /\ Returned("mark_completed")
    /\ DOMAIN arg.kwargs = {"table_name", "file_count"}
    /\ arg.instance.message # arg.row.message
    /\ arg.instance.retry_count # arg.row.retry_count
    /\ result.value.row.table_name = "test_table"

\* The operations C24 lists.
Mutations ==
    {"mark_completed", "mark_failed", "increment_retry", "retry_path",
     "retry_failed_jobs"}

\* C24: an operation that has changed any column of the job's row has also
\* advanced the row's updated_at, and has left created_at and id alone.
C24_UpdatedAtAdvances ==
    (arg.fn \in Mutations /\ result.ok) =>
        LET row == result.value.row
        IN  /\ row.created_at = arg.row.created_at
            /\ row.id = arg.row.id
            /\ row # arg.row => row.updated_at > arg.row.updated_at

\* C25: an operation, called on an instance that is the job's row as it is,
\* that has changed the job's status has not left in the row the message it
\* held before.
C25_MessageOverwritten ==
    (arg.fn \in Mutations /\ arg.instance = arg.row /\ result.ok) =>
        LET row == result.value.row
        IN  (row.status # arg.row.status /\ arg.row.message # "")
            => row.message # arg.row.message

\* C26: every job id has at most one unit of work with the broker or in
\* execution. A unit of work for job j appears only when intake creates j, or
\* as the retry sent by the execution of j's unit, which that execution has
\* consumed.
C26_OneUnitPerJob ==
    [][\A j \in 1..MaxJobs :
          /\ Dispatched(queue, j) <= 1
          /\ Dispatched(queue', j) <= 1
          /\ \A new \in MessagesOf(queue', j) \ MessagesOf(queue, j) :
                \/ /\ j = nextId
                   /\ j \in DOMAIN jobs' \ DOMAIN jobs
                   /\ new.retries = 0
                \/ \E m \in MessagesOf(queue, j) \ MessagesOf(queue', j) :
                      new = [m EXCEPT !.retries = @ + 1,
                                      !.countdown = new.countdown]]_vars

\* Two jobs have their one unit of work each with the broker, one of them
\* the retry of a failed execution.
C26_Witness ==
    \E j, k \in DOMAIN jobs :
        /\ j # k
        /\ Dispatched(queue, j) = 1
        /\ Dispatched(queue, k) = 1
        /\ \E m \in MessagesOf(queue, j) : m.retries = 2
        /\ failures[j] = 2

\* The builds waiting with the broker.
Builds == {m \in Messages : m.task = "build_ta_analytics_tables_task"}

\* C27: a build that fails is sent again with a delay of 120 seconds while
\* it has been sent again fewer than 3 times, and is not sent again after
\* that: no build runs more than 4 times (retries 0 to 3).
C27_BuildRetriedThreeTimes ==
    [][/\ \A m \in Builds : m.retries <= 3
       /\ \A m \in Builds :
             (build_ta_analytics_tables_task(m, "raise") /\ queue' # queue)
             => LET again == [m EXCEPT !.retries = @ + 1, !.countdown = 120]
                IN  IF m.retries < 3
                    THEN queue' = (queue (-) SetToBag({m})) (+) SetToBag({again})
                    ELSE queue' = queue (-) SetToBag({m})]_vars

\* A build is waiting for its fourth run while another one waits for its
\* first.
C27_Witness ==
    /\ \E m \in Builds : m.retries = 3 /\ m.countdown = 120
    /\ BuildMsg \in Builds

\* C28: in every state reachable under intake, the task executions taken
\* step by step, duplicate delivery and the admin and REST operations, every
\* stored job has 0 <= retry_count <= 5.
C28_RetryCountBounded ==
    \A j \in DOMAIN jobs :
        /\ 0 <= jobs[j].retry_count
        /\ jobs[j].retry_count <= MaxRetries

\* Two executions of one job overlap after both read retry_count 4; one has
\* saved its increment, the other has not yet.
C28_Witness ==
    \E e1, e2 \in BagToSet(executions) :
        /\ e1.m.job_id = e2.m.job_id
        /\ e1.m.job_id \in DOMAIN jobs
        /\ e1.pc = "save" /\ e2.pc = "increment"
        /\ e1.current_retry = MaxRetries - 1
        /\ e2.current_retry = MaxRetries - 1
        /\ jobs[e1.m.job_id].retry_count = MaxRetries


\* The executions that are bound to job j and stand at statement pc.
ExecutionsAt(j, pc) ==
    {e \in BagToSet(executions) : e.m.job_id = j /\ e.pc = pc}

C30_RunningJobTerminates ==
    \A j \in 1..MaxJobs :
        /\ [](j \in PostgresJobs =>
                /\ failures[j] <= MaxRetries + 1
                /\ jobs[j].status = "completed" => failures[j] <= MaxRetries)
        /\ (j \in PostgresJobs /\ jobs[j].status = "running")
              ~> (j \notin DOMAIN jobs \/ jobs[j].status \in {"completed", "failed"})

\* A Postgres job completed by its sixth execution, after five that raised.
C30_Witness ==
    \E j \in PostgresJobs :
        /\ jobs[j].status = "completed"
        /\ failures[j] = MaxRetries
        /\ MessagesOf(queue, j) = {}

============================================================================
